---------------------------- MODULE Spec2Model ----------------------------
(***************************************************************************)
(* A model of the envelopes interpolator: the shape table kept by          *)
(* EnvelopesInterpolator (src/src/EnvelopesInterpolator.cpp), its          *)
(* interpolate / stretchCurve algorithm, and the DoubleBuffer handoff      *)
(* (src/include/DoubleBuffer.h) as driven by main (src/src/main.cpp).      *)
(*                                                                         *)
(* Samples and the interpolation factor are C++ floats.  They are modelled *)
(* as exact rationals <<numerator, denominator>> in lowest terms.  The     *)
(* (int) casts of the code are modelled as truncation toward zero.         *)
(* Peak positions handed to the table are taken inside [0, envsize), the   *)
(* domain the header documents; flat sample buffers are large enough for   *)
(* the shapes read from them.                                              *)
(***************************************************************************)
EXTENDS Integers, Sequences, FiniteSets, TLC

VARIABLES
    shapes,            \* _shapes : sequence of shapes, each a sequence of samples
    peaks,             \* _peaks  : sequence of peak indices (0-based)
    numberOfShapes,    \* _numberOfShapes
    envsize,           \* _envsize
    call,              \* the call main has made and not yet returned from, with its arguments
    targetbuffer,      \* the target buffer at the end of that call, when it is an interpolate
    locals,            \* interpolate's locals at its end: path, peak, stretched_A/B
    isBufferAActive,   \* DoubleBuffer::isBufferAActive
    bufferA,           \* DoubleBuffer::bufferA
    bufferB,           \* DoubleBuffer::bufferB
    wpc, wref, wi, round,  \* the writer: position, held buffer, next index, loop count
    rpc, rref, ri          \* the reader: position, held buffer, next index

table  == <<shapes, peaks, numberOfShapes, envsize>>
ivars  == <<shapes, peaks, numberOfShapes, envsize, call, targetbuffer, locals>>
dbvars == <<isBufferAActive, bufferA, bufferB, wpc, wref, wi, round, rpc, rref, ri>>
vars   == <<shapes, peaks, numberOfShapes, envsize, call, targetbuffer, locals,
            isBufferAActive, bufferA, bufferB, wpc, wref, wi, round, rpc, rref, ri>>

---------------------------------------------------------------------------
(* Bounds of the model. *)

\* the envelope size the interpolator is constructed with
EnvSize == 4
\* the largest number of shapes a table is grown to
MaxShapes == 2
\* interpolation factors are the multiples of 1/2^SBits: binary fractions,
\* which a float holds exactly, so that the casts of lines 47 and 74 see the
\* same values in rational arithmetic as in the code's float arithmetic
SBits == 1
\* the number of samples of each half of the double buffer
DBSize == 3
\* the number of rounds the writer loop is followed for
MaxRounds == 3

---------------------------------------------------------------------------
(* float arithmetic, as exact rationals *)

Abs(x) == IF x < 0 THEN -x ELSE x

Min(a, b) == IF a < b THEN a ELSE b

RECURSIVE GCD(_, _)
GCD(a, b) == IF b = 0 THEN a ELSE GCD(b, a % b)

\* the rational n/d (d > 0) in lowest terms
Rat(n, d) == LET g == GCD(Abs(n), d) IN <<n \div g, d \div g>>

RInt(k) == <<k, 1>>

Zero == RInt(0)

RAdd(a, b) == Rat(a[1] * b[2] + b[1] * a[2], a[2] * b[2])

RSub(a, b) == Rat(a[1] * b[2] - b[1] * a[2], a[2] * b[2])

RMul(a, b) == Rat(a[1] * b[1], a[2] * b[2])

RLt(a, b) == a[1] * b[2] < b[1] * a[2]

\* (int)x : truncation toward zero
Trunc(a) == IF a[1] >= 0 THEN a[1] \div a[2] ELSE -((-a[1]) \div a[2])

---------------------------------------------------------------------------
(* values of the caller's side *)

\* the content of a target buffer before a call writes to it
Stale == RInt(-1)

\* what a read outside a vector's storage may yield
Wild == RInt(-2)

Fresh(len) == [i \in 1..len |-> Stale]

\* the amplitude of the control points and samples handed in
PeakAmp == 1

---------------------------------------------------------------------------
(* EnvelopeTable descriptors and the arguments of the calls *)

Table(sh, pk, n, e) == [shapes |-> sh, peaks |-> pk, numberOfShapes |-> n, envsize |-> e]

Cur == Table(shapes, peaks, numberOfShapes, envsize)

\* const float* data == nullptr
Null == [present |-> FALSE, samples |-> <<>>]

Pair(i, a) == [first |-> i, second |-> RInt(a)]

\* shape k (0-based) of a flat buffer: zero at index 0, k+1 inside, and at the
\* last index 0 (kind "closed") or PeakAmp (kind "open")
FlatSample(kind, k, j, e) ==
    IF j = 0 THEN Zero
    ELSE IF j = e - 1 THEN (IF kind = "open" THEN RInt(PeakAmp) ELSE Zero)
    ELSE RInt(k + 1)

\* a flat buffer of n shapes of e samples
FlatData(kind, n, e) ==
    [present |-> TRUE,
     samples |-> [x \in 1..(n * e) |-> FlatSample(kind, (x - 1) \div e, (x - 1) % e, e)]]

\* a list of n peaks at index 1
PeakList(n) == [i \in 1..n |-> 1]

\* setDataAndPeaks arguments: every present buffer with every peak count, and
\* an absent buffer
DataAndPeaksInputs(e) ==
    {[data |-> FlatData(kind, n, e), peaks |-> PeakList(n)] :
        kind \in {"closed", "open"}, n \in 0..MaxShapes}
    \cup {[data |-> Null, peaks |-> PeakList(1)]}

SizeInputs == {EnvSize - 1, EnvSize}

Desc(d, e, n, pk) == [data |-> d, envsize |-> e, numberOfShapes |-> n, peaks |-> pk]

\* descriptors: consistent ones, ones whose peak list is one shorter or one
\* longer than the announced numberOfShapes, and one without a buffer
Descriptors ==
    UNION { {Desc(FlatData(kind, n, e), e, n, PeakList(n)) :
                kind \in {"closed", "open"}, n \in 1..MaxShapes}
            \cup {Desc(FlatData("closed", n, e), e, n, PeakList(n - 1)) : n \in 1..MaxShapes}
            \cup {Desc(FlatData("closed", 0, e), e, 0, PeakList(1)),
                  Desc(Null, e, 1, PeakList(1))} :
            e \in SizeInputs }
    \cup {Desc(FlatData("closed", 0, EnvSize), EnvSize, 0, PeakList(0))}

\* addLinearShape arguments.  Anchored control points: a triangle with its peak
\* at index 1 (declared there, or at 0), a ramp down from a nonzero first
\* amplitude, a ramp up to a nonzero last amplitude, a late hill with its peak
\* declared at the last index.  Unanchored ones: a first index of 1, a last
\* index of e - 2.
AddInputs(e) ==
    { [points |-> <<Pair(0, 0), Pair(1, PeakAmp), Pair(e - 1, 0)>>, peak |-> 1],
      [points |-> <<Pair(0, 0), Pair(1, PeakAmp), Pair(e - 1, 0)>>, peak |-> 0],
      [points |-> <<Pair(0, 0), Pair(e - 2, PeakAmp), Pair(e - 1, 0)>>, peak |-> e - 1],
      [points |-> <<Pair(0, PeakAmp), Pair(e - 1, 0)>>, peak |-> 0],
      [points |-> <<Pair(0, 0), Pair(e - 1, PeakAmp)>>, peak |-> e - 1],
      [points |-> <<Pair(1, 0), Pair(e - 1, 0)>>, peak |-> 1],
      [points |-> <<Pair(0, 0), Pair(e - 2, 0)>>, peak |-> 1] }

\* interpolation factors from one step below 0 to one step above MaxShapes,
\* in steps of 1/2^SBits
FactorInputs == {Rat(n, 2 ^ SBits) : n \in -1..(MaxShapes * (2 ^ SBits) + 1)}

\* interpolate arguments: every factor with a target of e samples, of one
\* sample less and of one sample more
InterpolateInputs(e) ==
    {[s |-> s, target |-> Fresh(len)] : s \in FactorInputs, len \in {e - 1, e, e + 1}}

NoDesc == [data |-> Null, envsize |-> 0, numberOfShapes |-> 0, peaks |-> <<>>]

NoArgs == [op |-> "none", s |-> Zero, target |-> <<>>, points |-> <<>>, peak |-> 0,
           data |-> Null, peaklist |-> <<>>, desc |-> NoDesc]

NoLocals == [path |-> "none", peak |-> 0, stretched_A |-> <<>>, stretched_B |-> <<>>]

---------------------------------------------------------------------------
(* EnvelopesInterpolator: construction and mutation of the table *)

\* _shapes[n][i] = data[n * _envsize + i], for n < count and i < e
Rows(data, count, e) == [n \in 1..count |-> [i \in 1..e |-> data.samples[(n - 1) * e + i]]]

\* EnvelopesInterpolator(int envsize)
NewEmpty(e) == Table(<<>>, <<>>, 0, e)

\* EnvelopesInterpolator(EnvelopeTable e): the member initialisers run first,
\* then a peak list of another length returns before anything is stored
NewFromTable(d) ==
    IF Len(d.peaks) # d.numberOfShapes
    THEN Table(<<>>, <<>>, d.numberOfShapes, d.envsize)
    ELSE Table(Rows(d.data, d.numberOfShapes, d.envsize), d.peaks,
               d.numberOfShapes, d.envsize)

\* setDataAndPeaks with _numberOfShapes assigned before the null check
setDataAndPeaksResult_CountFirst(data, pk) ==
    IF ~data.present THEN Table(shapes, peaks, Len(pk), envsize)
    ELSE Table(Rows(data, Len(pk), envsize), pk, Len(pk), envsize)

setDataAndPeaksResult(data, pk) ==
    IF ~data.present THEN Cur
    ELSE Table(Rows(data, Len(pk), envsize), pk, Len(pk), envsize)

setEnvelopeTableResult(d) ==
    IF ~d.data.present THEN Cur
    ELSE IF d.numberOfShapes # Len(d.peaks) THEN Cur
    ELSE Table(Rows(d.data, d.numberOfShapes, d.envsize), d.peaks,
               d.numberOfShapes, d.envsize)

\* the early return of addLinearShape
Unanchored(points) ==
    points[1].first # 0 \/ points[Len(points)].first # envsize - 1

\* the segment loop of addLinearShape, from segment i on
RECURSIVE rasterize(_, _, _)
rasterize(points, i, newshape) ==
    IF i > Len(points) - 1 THEN newshape
    ELSE LET x0 == points[i].first
             y0 == points[i].second
             x1 == points[i + 1].first
             y1 == points[i + 1].second
         IN rasterize(points, i + 1,
                [k \in 1..Len(newshape) |->
                    IF x0 <= k - 1 /\ k - 1 <= x1
                    THEN RAdd(y0, RMul(Rat(k - 1 - x0, x1 - x0), RSub(y1, y0)))
                    ELSE newshape[k]])

addLinearShapeResult(points, peakPosition) ==
    IF Unanchored(points) THEN Cur
    ELSE Table(Append(shapes, rasterize(points, 1, [k \in 1..envsize |-> Zero])),
               Append(peaks, peakPosition), numberOfShapes + 1, envsize)

Install(t) ==
    /\ shapes' = t.shapes
    /\ peaks' = t.peaks
    /\ numberOfShapes' = t.numberOfShapes
    /\ envsize' = t.envsize

\* the members after a constructor
Constructed(t) ==
    /\ shapes = t.shapes
    /\ peaks = t.peaks
    /\ numberOfShapes = t.numberOfShapes
    /\ envsize = t.envsize

---------------------------------------------------------------------------
(* EnvelopesInterpolator::stretchCurve and ::interpolate *)

\* stretchedCurve, of newLength samples (newLength >= 2)
stretchCurve(inputCurve, newLength) ==
    LET originalLength == Len(inputCurve) - 1
    IN [k \in 1..newLength |->
          LET originalX == Rat((k - 1) * originalLength, newLength - 1)
              x0 == Trunc(originalX)
              x1 == Min(x0 + 1, originalLength)
              y0 == inputCurve[x0 + 1]
              y1 == inputCurve[x1 + 1]
              t  == RSub(originalX, RInt(x0))
          IN RAdd(y0, RMul(t, RSub(y1, y0)))]

\* std::vector<float>(v.begin() + a, v.begin() + b)
Slice(v, a, b) == [i \in 1..(b - a) |-> v[a + i]]

\* if (l.size() == 1) l.insert(l.begin(), 0.0f)
PadFront(v) == IF Len(v) = 1 THEN <<Zero>> \o v ELSE v

\* if (r.size() == 1) r.push_back(0.0f)
PadBack(v) == IF Len(v) = 1 THEN Append(v, Zero) ELSE v

\* a.insert(a.end() - 1, b.begin(), b.end())
InsertBeforeLast(a, b) == SubSeq(a, 1, Len(a) - 1) \o b \o <<a[Len(a)]>>

\* the range check with > in place of >=
OutOfRange_Inclusive(s) == RLt(s, Zero) \/ RLt(RInt(numberOfShapes), s)

\* if (s < 0 || s >= _numberOfShapes) return;
OutOfRange(s) == RLt(s, Zero) \/ ~RLt(s, RInt(numberOfShapes))

\* the size check off by one
TooSmall_OffByOne(target) == Len(target) < envsize - 1

\* if (targetbuffer.size() < _envsize) return;
TooSmall(target) == Len(target) < envsize

s_int(s) == Trunc(s)

s_dec(s) == RSub(s, RInt(s_int(s)))

Neighbour(s) == (s_int(s) + 1) % numberOfShapes

\* peak = (int)((_peaks[i2] - _peaks[i1]) * s_dec + _peaks[i1])
ghostPeak(s) ==
    LET p1 == peaks[s_int(s) + 1]
        p2 == peaks[Neighbour(s) + 1]
    IN Trunc(RAdd(RMul(RInt(p2 - p1), s_dec(s)), RInt(p1)))

\* if (peak != 0 && peak != _envsize - 1)
SplitPath(peak) == peak # 0 /\ peak # envsize - 1

\* recombine with the left part stretched one sample too long
recombine_LongLeft(shape, pk, peak) ==
    LET l == PadFront(Slice(shape, 0, pk + 1))
        r == PadBack(Slice(shape, pk, envsize))
    IN InsertBeforeLast(stretchCurve(l, peak + 2), stretchCurve(r, envsize - peak))

\* one source shape split at its own peak pk, both parts stretched to the new
\* peak and inserted into one another
recombine(shape, pk, peak) ==
    LET l == PadFront(Slice(shape, 0, pk + 1))
        r == PadBack(Slice(shape, pk, envsize))
    IN InsertBeforeLast(stretchCurve(l, peak + 1), stretchCurve(r, envsize - peak))

\* targetbuffer[i] = (1 - s_dec) * stretched_A[i] + s_dec * stretched_B[i]
blend(w, a, b) ==
    [i \in 1..envsize |-> RAdd(RMul(RSub(RInt(1), w), a[i]), RMul(w, b[i]))]

\* every vector element interpolate(s, .) reads exists
InBounds(s) ==
    /\ s_int(s) + 1 <= Len(shapes)
    /\ s_dec(s) # Zero =>
          /\ Neighbour(s) + 1 <= Len(shapes)
          /\ s_int(s) + 1 <= Len(peaks)
          /\ Neighbour(s) + 1 <= Len(peaks)
          /\ peaks[s_int(s) + 1] \in 0..(envsize - 1)
          /\ peaks[Neighbour(s) + 1] \in 0..(envsize - 1)

\* interpolate(float s, float* targetbuffer) past its range check, with every
\* read in bounds: the locals at the end and the envsize samples written
interpolateBody(s) ==
    IF s_dec(s) = Zero
    THEN [path |-> "copy", peak |-> 0, stretched_A |-> <<>>, stretched_B |-> <<>>,
          written |-> shapes[s_int(s) + 1]]
    ELSE LET i1 == s_int(s)
             i2 == Neighbour(s)
             peak == ghostPeak(s)
             A == IF SplitPath(peak)
                  THEN recombine(shapes[i1 + 1], peaks[i1 + 1], peak)
                  ELSE shapes[i1 + 1]
             B == IF SplitPath(peak)
                  THEN recombine(shapes[i2 + 1], peaks[i2 + 1], peak)
                  ELSE shapes[i2 + 1]
         IN [path |-> IF SplitPath(peak) THEN "split" ELSE "direct",
             peak |-> peak, stretched_A |-> A, stretched_B |-> B,
             written |-> blend(s_dec(s), A, B)]

\* the first envsize samples of the target replaced
Write(target, samples) ==
    [i \in 1..Len(target) |-> IF i <= Len(samples) THEN samples[i] ELSE target[i]]

\* what a target may hold after reads outside a vector's storage: whatever was
\* found there (zeros, or something else), or its old content when the read
\* faults before the first write
Clobbered(target) == {target} \cup {[i \in 1..Len(target) |-> v] : v \in {Zero, Wild}}

---------------------------------------------------------------------------
(* the calls on an EnvelopesInterpolator *)

\* interpolate(float s, std::vector<float>& targetbuffer)
interpolate(s, target) ==
    /\ call.op = "none"
    /\ call' = [NoArgs EXCEPT !.op = "interpolate", !.s = s, !.target = target]
    /\ IF TooSmall(target) \/ OutOfRange(s)
       THEN /\ targetbuffer' = target
            /\ locals' = [NoLocals EXCEPT !.path = "return"]
       ELSE IF ~InBounds(s)
       THEN /\ targetbuffer' \in Clobbered(target)
            /\ locals' = [NoLocals EXCEPT !.path = "wild"]
       ELSE LET r == interpolateBody(s)
            IN /\ targetbuffer' = Write(target, r.written)
               /\ locals' = [path |-> r.path, peak |-> r.peak,
                             stretched_A |-> r.stretched_A, stretched_B |-> r.stretched_B]
    /\ UNCHANGED <<table, dbvars>>

setDataAndPeaks(data, pk) ==
    /\ call.op = "none"
    /\ call' = [NoArgs EXCEPT !.op = "setDataAndPeaks", !.data = data, !.peaklist = pk]
    /\ Install(setDataAndPeaksResult(data, pk))
    /\ targetbuffer' = <<>>
    /\ locals' = NoLocals
    /\ UNCHANGED dbvars

setEnvelopeTable(d) ==
    /\ call.op = "none"
    /\ call' = [NoArgs EXCEPT !.op = "setEnvelopeTable", !.desc = d]
    /\ Install(setEnvelopeTableResult(d))
    /\ targetbuffer' = <<>>
    /\ locals' = NoLocals
    /\ UNCHANGED dbvars

addLinearShape(points, peakPosition) ==
    /\ call.op = "none"
    /\ numberOfShapes < MaxShapes
    /\ call' = [NoArgs EXCEPT !.op = "addLinearShape", !.points = points,
                              !.peak = peakPosition]
    /\ Install(addLinearShapeResult(points, peakPosition))
    /\ targetbuffer' = <<>>
    /\ locals' = NoLocals
    /\ UNCHANGED dbvars

\* the call returns to main, which is then free to make the next one
Return ==
    /\ call.op # "none"
    /\ call' = NoArgs
    /\ targetbuffer' = <<>>
    /\ locals' = NoLocals
    /\ UNCHANGED <<table, dbvars>>

---------------------------------------------------------------------------
(* DoubleBuffer *)

\* DoubleBuffer(int size)
InitDB ==
    /\ isBufferAActive = TRUE
    /\ bufferA = [i \in 1..DBSize |-> 0]
    /\ bufferB = [i \in 1..DBSize |-> 0]
    /\ wpc = "get" /\ wref = "none" /\ wi = 0 /\ round = 0
    /\ rpc = "get" /\ rref = "none" /\ ri = 0

getActiveBuffer == IF isBufferAActive THEN "A" ELSE "B"

getInactiveBuffer == IF isBufferAActive THEN "B" ELSE "A"

\* the writer: auto& writingBuffer = db.getInactiveBuffer();
WriterGet ==
    /\ wpc = "get"
    /\ round < MaxRounds
    /\ wref' = getInactiveBuffer
    /\ wi' = 0
    /\ wpc' = "fill"
    /\ UNCHANGED <<isBufferAActive, bufferA, bufferB, round, rpc, rref, ri, ivars>>

\* the writer: interpolate's loop stores one sample of the held buffer
WriterFill ==
    /\ wpc = "fill"
    /\ IF wi < DBSize
       THEN /\ bufferA' = IF wref = "A" THEN [bufferA EXCEPT ![wi + 1] = round + 1] ELSE bufferA
            /\ bufferB' = IF wref = "B" THEN [bufferB EXCEPT ![wi + 1] = round + 1] ELSE bufferB
            /\ wi' = wi + 1
            /\ wpc' = "fill"
       ELSE /\ wpc' = "swap"
            /\ UNCHANGED <<bufferA, bufferB, wi>>
    /\ UNCHANGED <<isBufferAActive, wref, round, rpc, rref, ri, ivars>>

\* the writer: db.swapBuffers();
WriterSwap ==
    /\ wpc = "swap"
    /\ isBufferAActive' = ~isBufferAActive
    /\ round' = round + 1
    /\ wref' = "none"
    /\ wpc' = "get"
    /\ UNCHANGED <<bufferA, bufferB, wi, rpc, rref, ri, ivars>>

\* the reader: auto& readingBuffer = db.getActiveBuffer();
ReaderGet ==
    /\ rpc = "get"
    /\ rref' = getActiveBuffer
    /\ ri' = 0
    /\ rpc' = "read"
    /\ UNCHANGED <<isBufferAActive, bufferA, bufferB, wpc, wref, wi, round, ivars>>

\* the reader: reads one sample of the held buffer, and lets go of it after the last
ReaderRead ==
    /\ rpc = "read"
    /\ IF ri < DBSize
       THEN /\ ri' = ri + 1
            /\ UNCHANGED <<rpc, rref>>
       ELSE /\ rpc' = "get"
            /\ rref' = "none"
            /\ ri' = 0
    /\ UNCHANGED <<isBufferAActive, bufferA, bufferB, wpc, wref, wi, round, ivars>>

---------------------------------------------------------------------------
(* the interpolator's specification *)

\* a descriptor the constructor can read without touching a null buffer
Readable(d) == d.data.present \/ d.numberOfShapes = 0 \/ Len(d.peaks) # d.numberOfShapes

Init ==
    /\ \/ /\ Constructed(NewEmpty(EnvSize))
          /\ call = [NoArgs EXCEPT !.op = "new"]
       \/ \E d \in Descriptors :
             /\ Readable(d)
             /\ Constructed(NewFromTable(d))
             /\ call = [NoArgs EXCEPT !.op = "newFromTable", !.desc = d]
    /\ targetbuffer = <<>>
    /\ locals = NoLocals
    /\ InitDB

Next ==
    \/ \E a \in InterpolateInputs(envsize) : interpolate(a.s, a.target)
    \/ \E a \in DataAndPeaksInputs(envsize) : setDataAndPeaks(a.data, a.peaks)
    \/ \E d \in Descriptors : setEnvelopeTable(d)
    \/ \E a \in AddInputs(envsize) : addLinearShape(a.points, a.peak)
    \/ Return

Spec == Init /\ [][Next]_vars

---------------------------------------------------------------------------
(* the double buffer's specification: one writer, one reader *)

InitHandoff ==
    /\ Constructed(NewEmpty(EnvSize))
    /\ call = [NoArgs EXCEPT !.op = "new"]
    /\ targetbuffer = <<>>
    /\ locals = NoLocals
    /\ InitDB

NextHandoff ==
    \/ WriterGet
    \/ WriterFill
    \/ WriterSwap
    \/ ReaderGet
    \/ ReaderRead

SpecHandoff == InitHandoff /\ [][NextHandoff]_vars

---------------------------------------------------------------------------
(* what the claims speak of *)

IsInterpolate == call.op = "interpolate"

\* the factor of the call is inside [0, numberOfShapes)
ValidFactor == call.s[1] >= 0 /\ call.s[1] < numberOfShapes * call.s[2]

IntegerFactor == call.s[2] = 1

\* floor(s), for a factor that is not negative
Floor == call.s[1] \div call.s[2]

\* frac(s)
Frac == Rat(call.s[1] % call.s[2], call.s[2])

\* shapes.length == peaks.length == numberOfShapes, every shape envsize long
WellFormed ==
    /\ Len(shapes) = numberOfShapes
    /\ Len(peaks) = numberOfShapes
    /\ \A n \in 1..Len(shapes) : Len(shapes[n]) = envsize

\* every stored shape is zero at both ends and every peak is inside the shape
ZeroEndedTable ==
    /\ \A n \in 1..Len(shapes) : shapes[n][1] = Zero /\ shapes[n][Len(shapes[n])] = Zero
    /\ \A n \in 1..Len(peaks) : peaks[n] \in 0..(envsize - 1)

---------------------------------------------------------------------------
(* C1 *)

\* C1: exact recovery at integers.  For every integer k with
\* 0 <= k < numberOfShapes, interpolate(k, buf) with a buffer of envsize
\* samples leaves buf equal to shapes[k], sample for sample.
C1_ExactRecovery ==
    (IsInterpolate /\ Len(call.target) = envsize /\ IntegerFactor /\ ValidFactor)
        => /\ Floor + 1 \in DOMAIN shapes
           /\ targetbuffer = shapes[Floor + 1]

\* C1 on the tables that satisfy the structural invariant: there it holds
C1_ExactRecoveryWellFormed == WellFormed => C1_ExactRecovery

---------------------------------------------------------------------------
(* C2 *)

\* C2: boundary zero preservation.  On a table whose shapes are zero at both
\* ends and whose peaks lie in [0, envsize), interpolate(s, buf) for every
\* valid s, integer or not, leaves buf[0] = 0 and buf[envsize-1] = 0.
C2_BoundaryZero ==
    (IsInterpolate /\ Len(call.target) >= envsize /\ ValidFactor /\ ZeroEndedTable)
        => /\ targetbuffer[1] = Zero
           /\ targetbuffer[envsize] = Zero

\* C2 on the tables that satisfy the structural invariant: there it holds
C2_BoundaryZeroWellFormed == WellFormed => C2_BoundaryZero

---------------------------------------------------------------------------
(* C3 *)

---------------------------------------------------------------------------
(* C4 *)

\* C4 as stated: whenever the target's length differs from envsize, shorter
\* or longer, interpolate(s, buf) writes no sample of buf.  (Stated on the
\* tables that satisfy the structural invariant, where every read of
\* interpolate is in bounds, so that what refutes it is interpolate's own
\* size check.)
C4_SizeMismatchNoOp ==
    (IsInterpolate /\ WellFormed /\ Len(call.target) # envsize)
        => targetbuffer = call.target

\* C4 amended: whenever the target is shorter than envsize, interpolate(s, buf)
\* writes no sample of buf, for every s including valid ones.
C4_ShortTargetNoOp ==
    (IsInterpolate /\ Len(call.target) < envsize) => targetbuffer = call.target

\* an interpolate with a valid factor and a target one sample short
C4_Witness ==
    /\ IsInterpolate
    /\ WellFormed /\ ValidFactor
    /\ Len(call.target) = envsize - 1
    /\ targetbuffer = call.target

---------------------------------------------------------------------------
(* C5 *)

\* some shape of a flat buffer of count shapes starts or ends with a nonzero sample
NonzeroBoundary(data, count, e) ==
    \E n \in 0..(count - 1) :
        data.samples[n * e + 1] # Zero \/ data.samples[n * e + e] # Zero

---------------------------------------------------------------------------
(* C6 *)

\* the first pair is (0, 0) and the last pair is (e - 1, 0)
Anchored(points, e) ==
    /\ points[1].first = 0 /\ points[1].second = Zero
    /\ points[Len(points)].first = e - 1 /\ points[Len(points)].second = Zero

\* C6: addLinearShape appends nothing, and leaves shapes, peaks and
\* numberOfShapes unchanged, unless the first pair is (0, 0) and the last pair
\* is (envsize-1, 0); otherwise it appends exactly one shape and one peak and
\* numberOfShapes grows by one.
C6_RejectsUnanchored ==
    [][call'.op = "addLinearShape"
        => IF ~Anchored(call'.points, envsize)
           THEN UNCHANGED <<shapes, peaks, numberOfShapes>>
           ELSE /\ Len(shapes') = Len(shapes) + 1
                /\ Len(peaks') = Len(peaks) + 1
                /\ numberOfShapes' = numberOfShapes + 1]_vars

---------------------------------------------------------------------------
(* C7 *)

\* C7: after construction and after any sequence of setDataAndPeaks,
\* setEnvelopeTable and addLinearShape calls, the number of stored shapes
\* equals the number of stored peaks equals numberOfShapes, and every stored
\* shape has exactly envsize samples.
C7_TableInvariant == WellFormed

---------------------------------------------------------------------------
(* C8 *)

\* C8: for a non-integer valid s, interpolate blends the two whole neighbour
\* shapes directly only if both neighbours' peaks are equal and lie at index 0
\* or at index envsize-1.
C8_DirectOnlyIfCoincide ==
    (IsInterpolate /\ locals.path = "direct")
        => LET p1 == peaks[Floor + 1]
               p2 == peaks[((Floor + 1) % numberOfShapes) + 1]
           IN p1 = p2 /\ p1 \in {0, envsize - 1}

---------------------------------------------------------------------------
(* C9 *)

\* C9: peak alignment on the split path.  With i1 = floor(s),
\* i2 = (i1+1) mod numberOfShapes and p the blended peak index, both
\* recombined shapes carry their source's peak sample at index p, and
\* output[p] = (1-frac(s)) * shapes[i1][peak[i1]] + frac(s) * shapes[i2][peak[i2]].
C9_PeakAligned ==
    (IsInterpolate /\ locals.path = "split")
        => LET i1 == Floor + 1
               i2 == ((Floor + 1) % numberOfShapes) + 1
               f  == Frac
               p  == (peaks[i1] * f[2] + f[1] * (peaks[i2] - peaks[i1])) \div f[2]
               a  == shapes[i1][peaks[i1] + 1]
               b  == shapes[i2][peaks[i2] + 1]
           IN /\ locals.peak = p
              /\ locals.stretched_A[p + 1] = a
              /\ locals.stretched_B[p + 1] = b
              /\ targetbuffer[p + 1] =
                    Rat((f[2] - f[1]) * a[1] * b[2] + f[1] * b[1] * a[2], f[2] * a[2] * b[2])

\* a split between two shapes whose peaks differ and are not both inside, with
\* a peak sample that is not zero
C9_Witness ==
    /\ IsInterpolate /\ locals.path = "split"
    /\ peaks[Floor + 1] # peaks[((Floor + 1) % numberOfShapes) + 1]
    /\ peaks[Floor + 1] \in {0, envsize - 1}
    /\ targetbuffer[locals.peak + 1] # Zero

---------------------------------------------------------------------------
(* C10 *)

\* C10: with one writer that fills getInactiveBuffer() and then calls
\* swapBuffers(), and one reader that reads getActiveBuffer(), the writer never
\* writes into a buffer while the reader's read of that buffer is in flight,
\* and the two getters never denote the same buffer.
C10_NoWriteWhileRead ==
    /\ ~(wpc = "fill" /\ wi < DBSize /\ rpc = "read" /\ ri < DBSize /\ wref = rref)
    /\ getActiveBuffer # getInactiveBuffer

====
